---- MODULE Spec2Model ----
(***************************************************************************)
(* Model of the PDP competitive-analysis front end:                        *)
(*   - the client orchestration (handleSubmit in app/page.tsx),            *)
(*   - the gateway route handlers (POST in app/api/.../route.ts), in their *)
(*     unauthenticated and authenticated variants,                         *)
(*   - the usage_logs table the authenticated discovery route writes to.   *)
(* JSON values are tagged records so that a missing field, a string, a     *)
(* boolean and an array can be told apart the way JavaScript does.         *)
(***************************************************************************)
EXTENDS Integers, Sequences, FiniteSets, TLC

\* ------------------------------------------------------------------ bounds
\* number of submits the client performs in one behaviour
MaxRuns == 2

\* ------------------------------------------------------- JavaScript values
Undefined == [type |-> "undefined"]
Null == [type |-> "null"]
JStr(s) == [type |-> "string", val |-> s]
JBool(b) == [type |-> "boolean", val |-> b]
JArr(n) == [type |-> "array", len |-> n]

\* o.f for a JSON object o (a record holding only the fields present)
Get(o, f) == IF f \in DOMAIN o THEN o[f] ELSE Undefined

\* JavaScript truthiness (objects and arrays are truthy, "" is falsy)
Truthy(v) == v \notin {Undefined, Null, JStr(""), JBool(FALSE)}

\* a || b
Or(a, b) == IF Truthy(a) THEN a ELSE b

\* x || null
OrNull(x) == Or(x, Null)

\* String(v), as new Error(v).message computes it
JsString(v) ==
  IF v = Undefined THEN "undefined"
  ELSE IF v = Null THEN "null"
  ELSE IF v.type = "string" THEN v.val
  ELSE IF v.type = "boolean" THEN (IF v.val THEN "true" ELSE "false")
  ELSE IF v.type = "array" THEN (IF v.len = 0 THEN "" ELSE "[object Object]")
  ELSE "[object Object]"

\* JSON.stringify followed by the receiver's parse: undefined fields vanish
Stringify(o) == [f \in {h \in DOMAIN o : o[h] # Undefined} |-> o[f]]

\* response.ok
Ok(status) == status >= 200 /\ status <= 299

\* --------------------------------------------------------------- variables
VARIABLES
  sourceUrl,        \* useState("") of the URL input
  loadingStep,      \* useState<LoadingStep>("idle")
  error,            \* useState<string | null>(null)
  results,          \* useState<CombinedResults | null>(null)
  competitorFound,  \* useState<CompetitorFinderResponse | null>(null)
  handler,          \* the running handleSubmit: await position and its locals
  runs,             \* number of submits so far
  trail,            \* values loadingStep has taken since the step before the last submit
  fetches,          \* fetch calls the current handleSubmit has made, per path
  deployed,         \* which variant of the routes the client's paths resolve to
  session,          \* the user the client's cookies resolve to
  inv,              \* gateway invocations, one slot per request
  usage_logs        \* rows of the usage_logs table, in insertion order

vars == <<sourceUrl, loadingStep, error, results, competitorFound, handler,
          runs, trail, fetches, deployed, session, inv, usage_logs>>

clientVars == <<sourceUrl, loadingStep, error, results, competitorFound,
                handler, runs, trail, fetches, deployed, session>>

\* ------------------------------------------------------------ the gateway
\* supabase.auth.getUser() resolved no user
NoUser == "none"
Users == {"user-1"}

\* setTimeout(() => controller.abort(), ...) of each route
FindCompetitorTimeoutMs == 120000
AuthFindCompetitorTimeoutMs == 300000
AnalyzeTimeoutMs == 120000
AuthAnalyzeTimeoutMs == 120000

\* mutant: every authenticated route given the five-minute timer
TimeoutAuthLonger(endpoint, variant) ==
  IF variant = "auth" THEN AuthFindCompetitorTimeoutMs ELSE FindCompetitorTimeoutMs

Timeout(endpoint, variant) ==
  IF endpoint = "find-competitor"
  THEN (IF variant = "auth" THEN AuthFindCompetitorTimeoutMs ELSE FindCompetitorTimeoutMs)
  ELSE (IF variant = "auth" THEN AuthAnalyzeTimeoutMs ELSE AnalyzeTimeoutMs)

\* the fallback of  data.detail || "..."
FallbackMessage(endpoint) ==
  IF endpoint = "find-competitor" THEN "Failed to find competitor" ELSE "Analysis failed"

\* the message of the 504 response
TimeoutMessage(endpoint) ==
  IF endpoint = "find-competitor"
  THEN "Request timed out finding competitor"
  ELSE "Request timed out. The analysis is taking longer than expected."

NoResponse == [status |-> 0, body |-> Undefined]

\* NextResponse.json(body, { status })
JsonResponse(body, status) == [status |-> status, body |-> body]

\* { success: false, error }
Failure(err) == [success |-> JBool(FALSE), error |-> err]

\* what the upstream service will do with one request: an input of the invocation
\*   json    : replies after latency ms with a status and a JSON body
\*   notjson : replies after latency ms with a status and a body that is not JSON
\*   stall   : sends its status line after latency ms and never finishes the body
\*   fault   : the connection fails after latency ms (fetch rejects)
\*   silent  : never replies
Script(kind, latency, status, body) ==
  [kind |-> kind, latency |-> latency, status |-> status, body |-> body]

NoScript == Script("none", 0, 0, Undefined)

IdleInv ==
  [pc |-> "idle", endpoint |-> "none", variant |-> "none", user |-> NoUser,
   body |-> Undefined, up |-> NoScript, timer |-> "unset", aborted |-> FALSE,
   upstreamCalls |-> 0, forwarded |-> Undefined, response |-> NoResponse,
   inserts |-> 0, logOutcome |-> "none"]

\* a request that has reached the route handler
NewInv(endpoint, variant, user, body, s) ==
  [IdleInv EXCEPT !.pc = "start", !.endpoint = endpoint, !.variant = variant,
                  !.user = user, !.body = body, !.up = s]

\* mutant: the authenticated routes without their  if (!user)  return
AuthDeniedNever(r) == FALSE

\* if (!user) of the authenticated routes
AuthDenied(r) == r.variant = "auth" /\ r.user = NoUser

\* the route up to its  await fetch(...): auth check, request.json(),
\* setTimeout, fetch with JSON.stringify(body)
Begin(r) ==
  IF AuthDenied(r)
  THEN [r EXCEPT !.pc = "done",
                 !.response = JsonResponse(Failure(JStr("Authentication required")), 401)]
  ELSE [r EXCEPT !.pc = "fetching", !.timer = "armed",
                 !.upstreamCalls = @ + 1, !.forwarded = Stringify(r.body)]

\* fetch resolved with the upstream's status line: clearTimeout, then await response.json()
HeadersArrived(r) == [r EXCEPT !.pc = "parsing", !.timer = "cleared"]

\* mutant: a catch block that sends the request again after a first fault
CaughtRetriesOnce(r, name, message) ==
  IF name # "AbortError" /\ r.pc = "fetching" /\ r.upstreamCalls < 2
  THEN [r EXCEPT !.upstreamCalls = @ + 1]
  ELSE IF name = "AbortError"
  THEN [r EXCEPT !.pc = "done",
                 !.response = JsonResponse(Failure(JStr(TimeoutMessage(r.endpoint))), 504)]
  ELSE [r EXCEPT !.pc = "done",
                 !.response = JsonResponse(Failure(JStr(message)), 500)]

\* mutant: a catch block that reports every error as a timeout
CaughtAlwaysTimeout(r, name, message) ==
  [r EXCEPT !.pc = "done",
            !.response = JsonResponse(Failure(JStr(TimeoutMessage(r.endpoint))), 504)]

\* mutant: a catch block that does not tell an AbortError from other errors
CaughtGeneric(r, name, message) ==
  [r EXCEPT !.pc = "done", !.response = JsonResponse(Failure(JStr(message)), 500)]

\* the catch block of the route
Caught(r, name, message) ==
  IF name = "AbortError"
  THEN [r EXCEPT !.pc = "done",
                 !.response = JsonResponse(Failure(JStr(TimeoutMessage(r.endpoint))), 504)]
  ELSE [r EXCEPT !.pc = "done",
                 !.response = JsonResponse(Failure(JStr(message)), 500)]

\* mutant: the logging block copied into the authenticated /analyze route
LogsUsageEveryRoute(r) == r.variant = "auth"

\* only the authenticated /find-competitor route logs usage
LogsUsage(r) == r.endpoint = "find-competitor" /\ r.variant = "auth"

\* if (data.success && data.data)
ShouldLog(data) == Truthy(Get(data, "success")) /\ Truthy(Get(data, "data"))

\* the route after  await response.json()  resolved with data
Parsed(r, data) ==
  IF ~Ok(r.up.status)
  THEN [r EXCEPT !.pc = "done",
                 !.response = JsonResponse(
                    Failure(Or(Get(data, "detail"), JStr(FallbackMessage(r.endpoint)))),
                    r.up.status)]
  ELSE IF LogsUsage(r) /\ ShouldLog(data)
  THEN [r EXCEPT !.pc = "logging", !.inserts = @ + 1]
  ELSE [r EXCEPT !.pc = "done", !.response = JsonResponse(data, 200)]

\* the row handed to supabase.from("usage_logs").insert
UsageRow(r) ==
  [user_id |-> JStr(r.user),
   source_url |-> Get(r.body, "source_url"),
   product_category |-> OrNull(Get(r.up.body.data, "product_category")),
   competitor_brand |-> OrNull(Get(r.up.body.data, "competitor_brand")),
   competitor_url |-> OrNull(Get(r.up.body.data, "competitor_url"))]

\* usage_logs.source_url is "text not null"
RowAccepted(row) == row.source_url \notin {Undefined, Null}

\* mutant: the insert outside the inner try, a thrown error reaching the outer catch
LoggedRethrows(r, outcome) ==
  IF outcome = "throws"
  THEN [r EXCEPT !.pc = "done", !.logOutcome = outcome,
                 !.response = JsonResponse(Failure(JStr("insert failed")), 500)]
  ELSE [r EXCEPT !.pc = "done", !.logOutcome = outcome,
                 !.response = JsonResponse(r.up.body, 200)]

\* the route after  await ...insert(...)  settled: a returned error is ignored,
\* a thrown one is caught by the inner try and only printed
Logged(r, outcome) ==
  [r EXCEPT !.pc = "done", !.logOutcome = outcome,
            !.response = JsonResponse(r.up.body, 200)]

\* the callback of setTimeout: controller.abort()
Abort(r) ==
  IF r.pc = "fetching"
  THEN Caught([r EXCEPT !.timer = "fired", !.aborted = TRUE], "AbortError", "This operation was aborted")
  ELSE [r EXCEPT !.timer = "fired", !.aborted = TRUE]

\* --- gateway steps of the invocation in slot g
GwBegin(g) ==
  /\ inv[g].pc = "start"
  /\ inv' = [inv EXCEPT ![g] = Begin(inv[g])]
  /\ UNCHANGED <<clientVars, usage_logs>>

GwHeaders(g) ==
  /\ inv[g].pc = "fetching"
  /\ inv[g].up.kind \in {"json", "notjson", "stall"}
  /\ inv[g].up.latency <= Timeout(inv[g].endpoint, inv[g].variant)
  /\ inv' = [inv EXCEPT ![g] = HeadersArrived(inv[g])]
  /\ UNCHANGED <<clientVars, usage_logs>>

GwTransportFault(g) ==
  /\ inv[g].pc = "fetching"
  /\ inv[g].up.kind = "fault"
  /\ inv[g].up.latency <= Timeout(inv[g].endpoint, inv[g].variant)
  /\ inv' = [inv EXCEPT ![g] = Caught(inv[g], "TypeError", "fetch failed")]
  /\ UNCHANGED <<clientVars, usage_logs>>

GwParsed(g) ==
  /\ inv[g].pc = "parsing"
  /\ inv[g].up.kind = "json"
  /\ inv' = [inv EXCEPT ![g] = Parsed(inv[g], inv[g].up.body)]
  /\ UNCHANGED <<clientVars, usage_logs>>

GwParseFails(g) ==
  /\ inv[g].pc = "parsing"
  /\ inv[g].up.kind = "notjson"
  /\ inv' = [inv EXCEPT ![g] = Caught(inv[g], "SyntaxError", "Unexpected token < in JSON at position 0")]
  /\ UNCHANGED <<clientVars, usage_logs>>

GwLogged(g) ==
  /\ inv[g].pc = "logging"
  /\ \E outcome \in {"inserted", "error", "throws"} :
       /\ outcome = "inserted" => RowAccepted(UsageRow(inv[g]))
       /\ usage_logs' = IF outcome = "inserted"
                        THEN Append(usage_logs, UsageRow(inv[g]))
                        ELSE usage_logs
       /\ inv' = [inv EXCEPT ![g] = Logged(inv[g], outcome)]
  /\ UNCHANGED clientVars

\* mutant: one AbortController at module scope, shared by the invocations
GwTimerAbortsAll(g) ==
  /\ inv[g].timer = "armed"
  /\ inv[g].pc = "fetching" =>
       \/ inv[g].up.kind = "silent"
       \/ inv[g].up.latency >= Timeout(inv[g].endpoint, inv[g].variant)
  /\ inv' = [h \in DOMAIN inv |->
               IF h = g \/ inv[h].pc = "fetching" THEN Abort(inv[h]) ELSE inv[h]]
  /\ UNCHANGED <<clientVars, usage_logs>>

GwTimer(g) ==
  /\ inv[g].timer = "armed"
  /\ inv[g].pc = "fetching" =>
       \/ inv[g].up.kind = "silent"
       \/ inv[g].up.latency >= Timeout(inv[g].endpoint, inv[g].variant)
  /\ inv' = [inv EXCEPT ![g] = Abort(inv[g])]
  /\ UNCHANGED <<clientVars, usage_logs>>

Gateway(g) ==
  \/ GwBegin(g)
  \/ GwHeaders(g)
  \/ GwTransportFault(g)
  \/ GwParsed(g)
  \/ GwParseFails(g)
  \/ GwLogged(g)
  \/ GwTimer(g)

\* ------------------------------------------------- the upstream's replies
EmptyObject == [f \in {} |-> Undefined]

CompetitorUrls == {"https://rival.example/p", "https://rival.example/y"}

\* a CompetitorFinderResponse
Discovery(c) ==
  [source_category |-> JStr("footwear"), competitor_url |-> JStr(c),
   competitor_product_name |-> JStr("Rival Runner"), competitor_brand |-> JStr("RivalCo")]

\* a discovery the upstream sent without its competitor_url
PartialDiscovery ==
  [source_category |-> JStr("footwear"), competitor_brand |-> JStr("RivalCo")]

\* an AnalysisReport
Report(source, reference) ==
  [comparison |-> [overall_source_score |-> source, overall_reference_score |-> reference]]

OkBodies(endpoint) ==
  IF endpoint = "find-competitor"
  THEN {[success |-> JBool(TRUE), data |-> Discovery(c)] : c \in CompetitorUrls}
       \cup {[success |-> JBool(TRUE), data |-> PartialDiscovery],
             [success |-> JBool(TRUE)],
             [success |-> JBool(FALSE), error |-> JStr("No competitor found")],
             [success |-> JBool(FALSE), error |-> JStr("Low confidence"),
              data |-> Discovery("https://rival.example/p")]}
  ELSE {[success |-> JBool(TRUE), data |-> Report(62, 80)],
        [success |-> JBool(TRUE), data |-> Report(71, 64)],
        [success |-> JBool(FALSE), error |-> JStr("Could not load the page")]}

\* error replies: a validation error list, a string detail, no detail at all
ErrorReplies ==
  {<<422, [detail |-> JArr(1)]>>,
   <<500, [detail |-> JStr("Upstream exploded")]>>,
   <<503, EmptyObject>>,
   <<504, [detail |-> JStr("Gateway Time-out")]>>}

\* reply times around the two timeout values
Latencies == {60000, 120000, 180000}

Scripts(endpoint) ==
  {Script("json", l, 200, b) : l \in Latencies, b \in OkBodies(endpoint)}
  \cup {Script("json", l, e[1], e[2]) : l \in Latencies, e \in ErrorReplies}
  \cup {Script("notjson", l, 502, Undefined) : l \in Latencies}
  \cup {Script("stall", l, 200, Undefined) : l \in Latencies}
  \cup {Script("fault", l, 0, Undefined) : l \in Latencies}
  \cup {Script("silent", 0, 0, Undefined)}

\* ------------------------------------------------------------- the client
SourceUrls == {"https://store.example/products/x", "https://store.example/products/z"}

NoHandler == [pc |-> "none", sourceUrl |-> "", competitorData |-> Undefined]

\* const isLoading = loadingStep !== "idle" && loadingStep !== "complete"
\* mutant: a form that is never disabled
isLoadingNever == FALSE

\* mutant: a form that is enabled again once the discovery has answered
isLoadingOnlyFinding == loadingStep = "finding_competitor"

isLoading == loadingStep # "idle" /\ loadingStep # "complete"

\* the card "Competitor found" of LoadingState, and the "Comparing against"
\* text of the older page: rendered only while loading in step analyzing
DiscoveryShown ==
  isLoading /\ loadingStep = "analyzing" /\ Truthy(competitorFound)

\* mutant: the check without its  !data.success  half
CallFailedStatusOnly(resp) == ~Ok(resp.status)

\* mutant: the check dropped altogether
CallFailedNever(resp) == FALSE

\* if (!response.ok || !data.success)
CallFailed(resp) == ~Ok(resp.status) \/ ~Truthy(Get(resp.body, "success"))

\* new Error(data.detail || data.error || fallback).message
ErrorMessage(data, fallback) ==
  JsString(Or(Get(data, "detail"), Or(Get(data, "error"), JStr(fallback))))

\* the slot of the gateway call the handler is waiting for
Awaited == IF handler.pc = "await_find" THEN "cf" ELSE "ca"

\* mutant: a catch block that sets the error and leaves the step alone
FailStaysLoading(message) ==
  /\ error' = JStr(message)
  /\ handler' = NoHandler
  /\ UNCHANGED <<sourceUrl, loadingStep, trail, results, competitorFound, runs, fetches,
                 deployed, session, usage_logs>>

\* the catch block of handleSubmit
Fail(message) ==
  /\ error' = JStr(message)
  /\ loadingStep' = "idle"
  /\ trail' = Append(trail, "idle")
  /\ handler' = NoHandler
  /\ UNCHANGED <<sourceUrl, results, competitorFound, runs, fetches, deployed,
                 session, usage_logs>>

\* mutant: an input that is not disabled while loading
SetSourceUrlWhileLoading(u) ==
  /\ u # sourceUrl
  /\ sourceUrl' = u
  /\ UNCHANGED <<loadingStep, error, results, competitorFound, handler, runs,
                 trail, fetches, deployed, session, inv, usage_logs>>

\* onChange of the input, which is disabled while loading
SetSourceUrl(u) ==
  /\ ~isLoading
  /\ u # sourceUrl
  /\ sourceUrl' = u
  /\ UNCHANGED <<loadingStep, error, results, competitorFound, handler, runs,
                 trail, fetches, deployed, session, inv, usage_logs>>

\* mutant: the reference taken from the competitorFound state, which the
\* closure of the running handler still sees as set by the submit
AnalyzeBodyStale(url, data) ==
  Stringify([source_url |-> JStr(url),
             reference_url |-> Get(competitorFound, "competitor_url")])

\* the body of the Compare Pages request built from the discovery response
AnalyzeBody(url, data) ==
  Stringify([source_url |-> JStr(url),
             reference_url |-> Get(Get(data, "data"), "competitor_url")])

\* mutant: a submit without setError(null)
SubmitKeepsError ==
  /\ ~isLoading
  /\ sourceUrl # ""
  /\ runs < MaxRuns
  /\ loadingStep' = "finding_competitor"
  /\ results' = Null
  /\ competitorFound' = Null
  /\ runs' = runs + 1
  /\ trail' = <<loadingStep, "finding_competitor">>
  /\ handler' = [pc |-> "await_find", sourceUrl |-> sourceUrl, competitorData |-> Undefined]
  /\ fetches' = [find |-> 1, analyze |-> 0]
  /\ \E s \in Scripts("find-competitor") :
       inv' = [inv EXCEPT !["cf"] = NewInv("find-competitor", deployed, session,
                                           Stringify([source_url |-> JStr(sourceUrl)]), s),
                          !["ca"] = IdleInv]
  /\ UNCHANGED <<sourceUrl, error, deployed, session, usage_logs>>

\* mutant: a submit without setCompetitorFound(null)
SubmitKeepsDiscovery ==
  /\ ~isLoading
  /\ sourceUrl # ""
  /\ runs < MaxRuns
  /\ loadingStep' = "finding_competitor"
  /\ error' = Null
  /\ results' = Null
  /\ runs' = runs + 1
  /\ trail' = <<loadingStep, "finding_competitor">>
  /\ handler' = [pc |-> "await_find", sourceUrl |-> sourceUrl, competitorData |-> Undefined]
  /\ fetches' = [find |-> 1, analyze |-> 0]
  /\ \E s \in Scripts("find-competitor") :
       inv' = [inv EXCEPT !["cf"] = NewInv("find-competitor", deployed, session,
                                           Stringify([source_url |-> JStr(sourceUrl)]), s),
                          !["ca"] = IdleInv]
  /\ UNCHANGED <<sourceUrl, competitorFound, deployed, session, usage_logs>>

\* handleSubmit up to its first await; the submit button is disabled while
\* loading and while the input is empty
Submit ==
  /\ ~isLoading
  /\ sourceUrl # ""
  /\ runs < MaxRuns
  /\ loadingStep' = "finding_competitor"
  /\ error' = Null
  /\ results' = Null
  /\ competitorFound' = Null
  /\ runs' = runs + 1
  /\ trail' = <<loadingStep, "finding_competitor">>
  /\ handler' = [pc |-> "await_find", sourceUrl |-> sourceUrl, competitorData |-> Undefined]
  /\ fetches' = [find |-> 1, analyze |-> 0]
  /\ \E s \in Scripts("find-competitor") :
       inv' = [inv EXCEPT !["cf"] = NewInv("find-competitor", deployed, session,
                                           Stringify([source_url |-> JStr(sourceUrl)]), s),
                          !["ca"] = IdleInv]
  /\ UNCHANGED <<sourceUrl, deployed, session, usage_logs>>

\* mutant: the fetch outside the try block, its rejection ending the handler
\* without the catch block
FetchThrowsUncaught ==
  /\ handler.pc \in {"await_find", "await_analyze"}
  /\ inv[Awaited].pc = "start"
  /\ inv' = [inv EXCEPT ![Awaited] = IdleInv]
  /\ handler' = NoHandler
  /\ UNCHANGED <<sourceUrl, loadingStep, error, results, competitorFound, runs, trail,
                 fetches, deployed, session, usage_logs>>

\* the awaited fetch rejects: the request never reached the route
FetchThrows ==
  /\ handler.pc \in {"await_find", "await_analyze"}
  /\ inv[Awaited].pc = "start"
  /\ inv' = [inv EXCEPT ![Awaited] = IdleInv]
  /\ Fail("Failed to fetch")

\* handleSubmit from the discovery response to its second await
FindResponded ==
  /\ handler.pc = "await_find"
  /\ inv["cf"].pc = "done"
  /\ LET competitorData == inv["cf"].response.body IN
       IF CallFailed(inv["cf"].response)
       THEN /\ Fail(ErrorMessage(competitorData, "Failed to find competitor"))
            /\ UNCHANGED inv
       ELSE IF Get(competitorData, "data") \in {Undefined, Null}
       THEN \* competitorData.data.competitor_url throws a TypeError
            /\ competitorFound' = Get(competitorData, "data")
            /\ error' = JStr("Cannot read properties of undefined (reading 'competitor_url')")
            /\ loadingStep' = "idle"
            /\ trail' = Append(Append(trail, "analyzing"), "idle")
            /\ handler' = NoHandler
            /\ UNCHANGED <<sourceUrl, results, runs, fetches, deployed, session, inv,
                           usage_logs>>
       ELSE /\ competitorFound' = Get(competitorData, "data")
            /\ loadingStep' = "analyzing"
            /\ trail' = Append(trail, "analyzing")
            /\ handler' = [handler EXCEPT !.pc = "await_analyze",
                                          !.competitorData = competitorData]
            /\ fetches' = [fetches EXCEPT !.analyze = @ + 1]
            /\ \E s \in Scripts("analyze") :
                 inv' = [inv EXCEPT !["ca"] =
                           NewInv("analyze", deployed, session,
                                  AnalyzeBody(handler.sourceUrl, competitorData), s)]
            /\ UNCHANGED <<sourceUrl, error, results, runs, deployed, session, usage_logs>>

\* mutant: the two halves of the combined result swapped
CombinedSwapped(competitorData, analyzeData) ==
  [competitorDiscovery |-> Get(analyzeData, "data"),
   comparison |-> Get(competitorData, "data")]

\* mutant: setResults(null) on success
CombinedNull(competitorData, analyzeData) == Null

\* setResults({ competitorDiscovery: competitorData.data, comparison: analyzeData.data })
Combined(competitorData, analyzeData) ==
  [competitorDiscovery |-> Get(competitorData, "data"),
   comparison |-> Get(analyzeData, "data")]

\* handleSubmit from the comparison response to its end
AnalyzeResponded ==
  /\ handler.pc = "await_analyze"
  /\ inv["ca"].pc = "done"
  /\ UNCHANGED inv
  /\ LET analyzeData == inv["ca"].response.body IN
       IF CallFailed(inv["ca"].response)
       THEN Fail(ErrorMessage(analyzeData, "Analysis failed"))
       ELSE /\ results' = Combined(handler.competitorData, analyzeData)
            /\ loadingStep' = "complete"
            /\ trail' = Append(trail, "complete")
            /\ handler' = NoHandler
            /\ UNCHANGED <<sourceUrl, error, competitorFound, runs, fetches, deployed,
                           session, usage_logs>>

\* ------------------------------------------------------- direct requests
\* the same request sent to the unauthenticated (d1) and the authenticated
\* (d2) variant of one route, the upstream behaving the same for both
RequestBodies(endpoint) ==
  IF endpoint = "find-competitor"
  THEN {[source_url |-> JStr("https://store.example/products/x")],
        [source_url |-> JStr("")],
        EmptyObject}
  ELSE {[source_url |-> JStr("https://store.example/products/x"),
         reference_url |-> JStr("https://rival.example/p")],
        [source_url |-> JStr("https://store.example/products/x")],
        [reference_url |-> JStr("https://rival.example/p")]}

Arrive(endpoint, user, body, s) ==
  /\ inv["d1"].pc = "idle"
  /\ inv["d2"].pc = "idle"
  /\ inv' = [inv EXCEPT !["d1"] = NewInv(endpoint, "unauth", user, body, s),
                        !["d2"] = NewInv(endpoint, "auth", user, body, s)]
  /\ UNCHANGED <<clientVars, usage_logs>>

\* ----------------------------------------------------------- specifications
Slots == {"cf", "ca", "d1", "d2"}
ClientSlots == {"cf", "ca"}
DirectSlots == {"d1", "d2"}
Endpoints == {"find-competitor", "analyze"}

Init ==
  /\ sourceUrl = ""
  /\ loadingStep = "idle"
  /\ error = Null
  /\ results = Null
  /\ competitorFound = Null
  /\ handler = NoHandler
  /\ runs = 0
  /\ trail = <<"idle">>
  /\ fetches = [find |-> 0, analyze |-> 0]
  /\ deployed \in {"unauth", "auth"}
  /\ session \in Users \cup {NoUser}
  /\ inv = [g \in Slots |-> IdleInv]
  /\ usage_logs = <<>>

Next ==
  \/ \E u \in SourceUrls \cup {""} : SetSourceUrl(u)
  \/ Submit
  \/ FetchThrows
  \/ FindResponded
  \/ AnalyzeResponded
  \/ \E g \in ClientSlots : Gateway(g)

\* the client and the gateway calls it makes
Spec == Init /\ [][Next]_vars

InitGw ==
  /\ Init
  /\ deployed = "unauth"
  /\ session = NoUser

NextGw ==
  \/ \E endpoint \in Endpoints, user \in Users \cup {NoUser} :
       \E body \in RequestBodies(endpoint), s \in Scripts(endpoint) :
         Arrive(endpoint, user, body, s)
  \/ \E g \in DirectSlots : Gateway(g)

\* one request sent to both variants of a route
SpecGw == InitGw /\ [][NextGw]_vars

\* the event loop runs every continuation and timer callback that is ready
FairGw == \A g \in DirectSlots : WF_vars(Gateway(g))

\* the same, with every ready step of an invocation eventually taken
SpecGwLive == InitGw /\ [][NextGw]_vars /\ FairGw

\* ------------------------------------------------------------------ claims
\* a response that reports success: HTTP ok and success = true
Succeeded(resp) == Ok(resp.status) /\ Get(resp.body, "success") = JBool(TRUE)

NonEmptyError(e) == e # Null /\ e.type = "string" /\ e.val # ""

\* C1: within one run, Compare Pages is invoked only after that run's
\* Discover Competitor call has returned a successful response; it is never
\* invoked while the discovery is pending or after it failed.
C1_CompareAfterDiscovery ==
  inv["ca"].pc # "idle" =>
    /\ inv["cf"].pc = "done"
    /\ Succeeded(inv["cf"].response)

C1_Witness ==
  /\ inv["ca"].pc = "fetching"
  /\ inv["cf"].pc = "done"
  /\ loadingStep = "analyzing"

\* C2: the Compare Pages request of a run carries as reference_url exactly
\* the competitor_url of the discovery that run's Discover Competitor call
\* returned.
C2_ReferenceIsDiscovered ==
  inv["ca"].pc # "idle" =>
    Get(inv["ca"].body, "reference_url")
      = Get(Get(inv["cf"].response.body, "data"), "competitor_url")

C2_Witness ==
  /\ runs = 2
  /\ inv["ca"].pc = "fetching"
  /\ Get(inv["ca"].forwarded, "reference_url") = JStr("https://rival.example/y")

\* C3: when the awaited Discover Competitor call fails (the fetch throws, the
\* status is not ok, or success is not true), the handler ends in idle with
\* a non-empty error string and Compare Pages has not been invoked.
C3_DiscoveryFailureToIdle ==
  [][(/\ handler.pc = "await_find"
      /\ handler'.pc # "await_find"
      /\ inv["cf"].pc = "start" \/ ~Succeeded(inv["cf"].response))
     => (/\ loadingStep = "finding_competitor"
         /\ loadingStep' = "idle"
         /\ NonEmptyError(error')
         /\ inv'["ca"].pc = "idle")]_vars

C3_Witness ==
  /\ loadingStep = "idle"
  /\ inv["cf"].pc = "done"
  /\ inv["cf"].response.status = 504
  /\ error = JStr("Request timed out finding competitor")
  /\ inv["ca"].pc = "idle"

\* C4: in the authenticated routes a request whose user does not resolve is
\* answered 401 {success: false, error} with no upstream request and no usage
\* row; an upstream request of an authenticated route implies a resolved user.
C4_AuthBeforeUpstream ==
  /\ \A g \in Slots :
       inv[g].variant = "auth" =>
         /\ (inv[g].user = NoUser /\ inv[g].pc # "start") =>
              /\ inv[g].pc = "done"
              /\ inv[g].response.status = 401
              /\ inv[g].response.body.success = JBool(FALSE)
              /\ NonEmptyError(inv[g].response.body.error)
              /\ inv[g].upstreamCalls = 0
              /\ inv[g].inserts = 0
         /\ inv[g].upstreamCalls > 0 => inv[g].user \in Users
  /\ \A i \in 1..Len(usage_logs) : usage_logs[i].user_id # JStr(NoUser)

C4_Witness ==
  /\ inv["d2"].endpoint = "analyze"
  /\ inv["d2"].user = NoUser
  /\ inv["d2"].pc = "done"
  /\ inv["d2"].response.status = 401
  /\ inv["d1"].upstreamCalls = 1

\* C5: once the authenticated discovery route has issued its usage-log
\* insert, its response is the upstream's body with status 200, whether the
\* insert stored the row, returned an error or threw.
C5_AuditFailureAbsorbed ==
  \A g \in Slots :
    (inv[g].pc = "done" /\ inv[g].inserts > 0) =>
      /\ inv[g].logOutcome \in {"inserted", "error", "throws"}
      /\ inv[g].response = JsonResponse(inv[g].up.body, 200)

C5_Witness ==
  /\ inv["d2"].pc = "done"
  /\ inv["d2"].logOutcome = "throws"
  /\ Succeeded(inv["d2"].response)
  /\ usage_logs = <<>>

\* C6: when the timer of a discovery invocation fires while its upstream
\* request is in flight, the request is aborted and the response is 504 with
\* success = false; once that response is returned the invocation changes no
\* more (no other response, no usage insert, no use of a late reply).
C6_TimeoutAbortsAndEnds ==
  [][\A g \in Slots :
       inv[g].endpoint = "find-competitor" =>
         /\ (inv[g].pc = "fetching" /\ inv[g].timer = "armed" /\ inv'[g].timer = "fired") =>
              /\ inv'[g].aborted
              /\ inv'[g].pc = "done"
              /\ inv'[g].response.status = 504
              /\ inv'[g].response.body.success = JBool(FALSE)
              /\ inv'[g].inserts = 0
         /\ (inv[g].pc = "done" /\ inv[g].response.status = 504) =>
              inv'[g] = inv[g]]_vars

C6_Witness ==
  /\ inv["d1"].endpoint = "find-competitor"
  /\ inv["d1"].pc = "done"
  /\ inv["d1"].response.status = 504
  /\ inv["d1"].aborted
  /\ inv["d1"].up.kind = "json"
  /\ inv["d2"].pc = "done"
  /\ inv["d2"].response.status = 200

\* C7: when both stages succeed the step has gone idle or complete, then
\* finding_competitor, analyzing, complete, and in complete the results are
\* the discovery returned by this run's stage 1 and the report returned by
\* this run's stage 2.
C7_SuccessfulRun ==
  loadingStep = "complete" =>
    /\ trail \in {<<"idle", "finding_competitor", "analyzing", "complete">>,
                  <<"complete", "finding_competitor", "analyzing", "complete">>}
    /\ Succeeded(inv["cf"].response)
    /\ Succeeded(inv["ca"].response)
    /\ results = [competitorDiscovery |-> Get(inv["cf"].response.body, "data"),
                  comparison |-> Get(inv["ca"].response.body, "data")]

C7_Witness ==
  /\ loadingStep = "complete"
  /\ runs = 2
  /\ trail[1] = "complete"
  /\ results.competitorDiscovery = Discovery("https://rival.example/y")
  /\ results.comparison = Report(62, 80)

\* C8 (as claimed): the discovery response is returned without waiting for
\* the usage-log insert, so while an insert is pending the response of its
\* invocation is already available to the caller.
C8_FireAndForget ==
  \A g \in Slots : inv[g].pc = "logging" => inv[g].response # NoResponse

\* the two variants were sent the same request and met the same upstream
\* behaviour, the user resolved, and both have answered
BothAnswered ==
  /\ inv["d1"].pc = "done"
  /\ inv["d2"].pc = "done"
  /\ inv["d2"].user \in Users

\* a reply that arrives at the very instant a timer is due races with it
Tie ==
  /\ inv["d1"].up.kind # "silent"
  /\ inv["d1"].up.latency \in {Timeout(inv["d1"].endpoint, "unauth"),
                               Timeout(inv["d1"].endpoint, "auth")}

\* C9 (as claimed): for a resolved user the two variants of an operation
\* return the same status and body for the same request and the same
\* upstream behaviour, timing out after the same duration.
C9_VariantsIdentical ==
  (BothAnswered /\ ~Tie) => inv["d1"].response = inv["d2"].response

\* C9 (amended): the two variants of Compare Pages return the same status
\* and body; the two variants of Discover Competitor do so when the upstream
\* replies before the shorter of their two timeouts or never replies.
C9_VariantsIdenticalUpToTimeout ==
  (/\ BothAnswered
   /\ ~Tie
   /\ inv["d1"].endpoint = "find-competitor" =>
        \/ inv["d1"].up.kind = "silent"
        \/ inv["d1"].up.latency < FindCompetitorTimeoutMs)
  => inv["d1"].response = inv["d2"].response

C9_Witness ==
  /\ BothAnswered
  /\ inv["d1"].endpoint = "analyze"
  /\ inv["d1"].up.kind = "json"
  /\ inv["d1"].up.latency = 180000
  /\ inv["d1"].response.status = 504
  /\ inv["d2"].response.status = 504

\* the request lacks a field its operation requires
MissingRequired(r) ==
  \/ ~Truthy(Get(r.body, "source_url"))
  \/ r.endpoint = "analyze" /\ ~Truthy(Get(r.body, "reference_url"))

\* C10 (as claimed): a request that lacks a required field is rejected by
\* the gateway and never reaches the upstream service.
C10_ValidationBeforeUpstream ==
  \A g \in Slots :
    (inv[g].pc # "idle" /\ MissingRequired(inv[g])) => inv[g].upstreamCalls = 0

\* the upstream has answered this invocation with a status line
Answered(r) == r.timer = "cleared"

\* C11: a gateway invocation sends at most one request to the upstream,
\* carrying the caller's body unchanged, also after a fault or a timeout;
\* one run of the client calls each gateway path at most once.
C11_SingleAttempt ==
  /\ \A g \in Slots :
       /\ inv[g].upstreamCalls <= 1
       /\ inv[g].pc \in {"fetching", "parsing", "logging"} => inv[g].upstreamCalls = 1
       /\ inv[g].upstreamCalls = 1 => inv[g].forwarded = inv[g].body
  /\ fetches.find <= 1
  /\ fetches.analyze <= 1
  /\ inv["ca"].pc # "idle" => fetches.analyze = 1

C11_Witness ==
  /\ inv["ca"].pc = "done"
  /\ inv["ca"].up.kind = "fault"
  /\ inv["ca"].response.status = 500
  /\ inv["ca"].upstreamCalls = 1
  /\ inv["cf"].upstreamCalls = 1
  /\ loadingStep = "idle"
  /\ fetches = [find |-> 1, analyze |-> 1]

\* C12 (as claimed): whenever the upstream answers with a non-success status
\* s, the gateway response has status s and body {success: false, error},
\* error being the upstream's detail when it sent one, whatever the form of
\* the upstream's body.
C12_UpstreamErrorPassThrough ==
  \A g \in Slots :
    (inv[g].pc = "done" /\ Answered(inv[g]) /\ ~Ok(inv[g].up.status)) =>
      /\ inv[g].response.status = inv[g].up.status
      /\ inv[g].response.body.success = JBool(FALSE)
      /\ (inv[g].up.kind = "json" /\ Truthy(Get(inv[g].up.body, "detail"))) =>
           inv[g].response.body.error = inv[g].up.body.detail

\* the fields CompetitorFinderResponse declares as always present
FullyPopulated(d) ==
  {"source_category", "competitor_url", "competitor_product_name", "competitor_brand"}
    \subseteq DOMAIN d

\* C13 (as claimed): a Discover Competitor response is either a success with a
\* fully populated discovery or a classified error {success: false, error};
\* a success status never comes with success = false, without data or with a
\* discovery that lacks a required field.
C13_NoPartialDiscovery ==
  \A g \in Slots :
    (inv[g].endpoint = "find-competitor" /\ inv[g].pc = "done") =>
      IF Ok(inv[g].response.status)
      THEN /\ Get(inv[g].response.body, "success") = JBool(TRUE)
           /\ "data" \in DOMAIN inv[g].response.body
           /\ FullyPopulated(inv[g].response.body.data)
      ELSE /\ Get(inv[g].response.body, "success") = JBool(FALSE)
           /\ "error" \in DOMAIN inv[g].response.body

\* C14 (as claimed): every failure response of a gateway route has the body
\* {success: false, error} with error a non-empty string, whatever the
\* upstream replied.
C14_FailureShape ==
  \A g \in Slots :
    (inv[g].pc = "done" /\ ~Ok(inv[g].response.status)) =>
      /\ inv[g].response.body.success = JBool(FALSE)
      /\ NonEmptyError(inv[g].response.body.error)

\* C15: an invocation issues at most one usage-log insert, and only the
\* authenticated discovery route does, for a resolved user, after the
\* upstream answered ok with success = true and data; the table holds exactly
\* the rows of the inserts that were stored.
C15_UsageLogOnlyOnDiscovery ==
  /\ \A g \in Slots :
       /\ inv[g].inserts <= 1
       /\ inv[g].inserts = 1 =>
            /\ inv[g].endpoint = "find-competitor"
            /\ inv[g].variant = "auth"
            /\ inv[g].user \in Users
            /\ Answered(inv[g])
            /\ inv[g].up.kind = "json"
            /\ Ok(inv[g].up.status)
            /\ Get(inv[g].up.body, "success") = JBool(TRUE)
            /\ "data" \in DOMAIN inv[g].up.body
       /\ inv[g].logOutcome # "none" => inv[g].inserts = 1
  /\ Len(usage_logs) = Cardinality({g \in Slots : inv[g].logOutcome = "inserted"})

C15_Witness ==
  /\ inv["d2"].pc = "done"
  /\ inv["d2"].logOutcome = "inserted"
  /\ Len(usage_logs) = 1
  /\ inv["d1"].pc = "done"
  /\ inv["d1"].inserts = 0

\* the changes of step the state machine allows
Edges ==
  { <<"idle", "finding_competitor">>, <<"complete", "finding_competitor">>,
    <<"finding_competitor", "analyzing">>,
    <<"finding_competitor", "idle">>, <<"analyzing", "idle">>,
    <<"analyzing", "complete">> }

\* C16: the step only changes along idle -> finding_competitor,
\* complete -> finding_competitor, finding_competitor -> analyzing,
\* finding_competitor -> idle, analyzing -> idle and analyzing -> complete:
\* every two consecutive values the step has taken since the last submit
\* form one of these edges.
C16_StepEdges ==
  /\ trail[Len(trail)] = loadingStep
  /\ \A i \in 1 .. Len(trail) - 1 : <<trail[i], trail[i + 1]>> \in Edges

C16_Witness ==
  trail = <<"complete", "finding_competitor", "analyzing", "idle">>

\* C17: every submit, from idle or from complete, moves the step to
\* finding_competitor with error, results and the stored discovery cleared as
\* the discovery call is issued, and the new run holds nothing of the
\* previous one.
C17_SubmitStartsFromScratch ==
  [][runs' # runs =>
       /\ loadingStep \in {"idle", "complete"}
       /\ loadingStep' = "finding_competitor"
       /\ error' = Null
       /\ results' = Null
       /\ competitorFound' = Null
       /\ handler'.competitorData = Undefined
       /\ handler'.sourceUrl = sourceUrl
       /\ inv'["cf"].pc = "start"
       /\ inv'["cf"].upstreamCalls = 0
       /\ inv'["cf"].body = [source_url |-> JStr(sourceUrl)]
       /\ inv'["ca"] = IdleInv]_vars

C17_Witness ==
  /\ runs = 2
  /\ trail = <<"idle", "finding_competitor">>
  /\ inv["cf"].pc = "start"
  /\ error = Null
  /\ results = Null
  /\ competitorFound = Null

\* the Compare Pages call of the run has just failed
CompareFailed ==
  handler.pc = "await_analyze" /\ handler'.pc = "none" /\ loadingStep' # "complete"

\* C18 (as claimed): when the Compare Pages call of a run fails the step goes
\* from analyzing to idle with a non-empty error, there is no combined
\* result, the stored discovery (competitorFound) is discarded and the input
\* URL is unchanged.
C18_CompareFailureClearsAll ==
  [][CompareFailed =>
       /\ loadingStep = "analyzing"
       /\ loadingStep' = "idle"
       /\ NonEmptyError(error')
       /\ results' = Null
       /\ competitorFound' = Null
       /\ sourceUrl' = sourceUrl]_vars

\* C18 (amended): when the Compare Pages call of a run fails the step goes
\* from analyzing to idle with a non-empty error, there is no combined
\* result and the input URL is unchanged; the stored discovery stays in
\* competitorFound but is no longer shown.
C18_CompareFailureHidesDiscovery ==
  [][CompareFailed =>
       /\ loadingStep = "analyzing"
       /\ loadingStep' = "idle"
       /\ NonEmptyError(error')
       /\ results' = Null
       /\ DiscoveryShown
       /\ ~DiscoveryShown'
       /\ competitorFound' = competitorFound
       /\ competitorFound' = handler.competitorData.data
       /\ sourceUrl' = sourceUrl]_vars

C18_Witness ==
  /\ trail = <<"idle", "finding_competitor", "analyzing", "idle">>
  /\ inv["ca"].pc = "done"
  /\ CallFailed(inv["ca"].response)
  /\ NonEmptyError(error)
  /\ results = Null
  /\ Truthy(competitorFound)
  /\ handler = NoHandler

\* a gateway call of the client that has been sent and not yet answered
InFlight(g) == inv[g].pc \notin {"idle", "done"}

\* C19: at most one gateway call is in flight, the one the running handler
\* awaits; a handler runs exactly while the step is finding_competitor or
\* analyzing, and a submit is accepted only in idle or complete, so no call
\* of an older run is pending when a run starts.
C19_OneRunOneCall ==
  /\ Cardinality({g \in ClientSlots : InFlight(g)}) <= 1
  /\ \A g \in ClientSlots : InFlight(g) => handler.pc # "none" /\ g = Awaited
  /\ handler.pc # "none" <=> loadingStep \in {"finding_competitor", "analyzing"}
  /\ handler.pc = "await_find" <=> loadingStep = "finding_competitor"
  /\ trail[1] \in {"idle", "complete"}

C19_Witness ==
  /\ runs = 2
  /\ trail[1] = "complete"
  /\ loadingStep = "analyzing"
  /\ inv["ca"].pc = "fetching"
  /\ inv["cf"].pc = "done"

\* C20 (as claimed): the row stored for a successful authenticated discovery
\* has the user's id, the request's source_url, and the category, competitor
\* brand and competitor URL of the discovery returned to the caller, null
\* only where the discovery has no such value.
C20_RowMatchesDiscovery ==
  \A g \in Slots :
    (inv[g].pc = "done" /\ inv[g].logOutcome = "inserted") =>
      /\ Len(usage_logs) >= 1
      /\ usage_logs[Len(usage_logs)] =
           [user_id |-> JStr(inv[g].user),
            source_url |-> inv[g].body.source_url,
            product_category |->
              OrNull(Get(inv[g].response.body.data, "source_category")),
            competitor_brand |->
              OrNull(Get(inv[g].response.body.data, "competitor_brand")),
            competitor_url |->
              OrNull(Get(inv[g].response.body.data, "competitor_url"))]

\* the fetch the running handler awaits has been issued and has not yet
\* resolved or rejected in the handler
CallPending == handler.pc # "none" /\ inv[Awaited].pc # "idle"

\* C21: the machine starts in idle with no error and no results; the step is
\* finding_competitor or analyzing exactly when a gateway call of the run is
\* pending (the discovery call in finding_competitor, the comparison call in
\* analyzing), and idle or complete whenever none is.
C21_LoadingIffCallPending ==
  /\ runs = 0 => loadingStep = "idle" /\ error = Null /\ results = Null
  /\ loadingStep \in {"idle", "finding_competitor", "analyzing", "complete"}
  /\ loadingStep \in {"finding_competitor", "analyzing"} <=> CallPending
  /\ loadingStep = "finding_competitor" => Awaited = "cf"
  /\ loadingStep = "analyzing" => Awaited = "ca"
  /\ ~CallPending => loadingStep \in {"idle", "complete"}

C21_Witness ==
  /\ loadingStep = "analyzing"
  /\ CallPending
  /\ inv["ca"].pc = "parsing"
  /\ inv["cf"].pc = "done"

\* the status an invocation answers with when its upstream's reply is used
ReplyStatus(r) ==
  IF r.up.kind = "json"
  THEN (IF Ok(r.up.status) THEN 200 ELSE r.up.status)
  ELSE 500

\* the statuses an invocation can answer with, given its own request, its
\* own caller and the behaviour of its own upstream request
OwnStatuses(r) ==
  IF AuthDenied(r) THEN {401}
  ELSE LET T == Timeout(r.endpoint, r.variant) IN
         (IF r.up.kind \in {"json", "notjson", "fault"} /\ r.up.latency <= T
          THEN {ReplyStatus(r)} ELSE {})
         \cup
         (IF r.up.kind = "silent" \/ r.up.latency >= T THEN {504} ELSE {})

\* C22: with invocations running concurrently, a step of one invocation (its
\* timer firing included) changes no other invocation, a request is aborted
\* only by the timer of its own invocation, and the status of a response is
\* one that the invocation's own request, caller and upstream behaviour allow.
C22_InvocationsIndependent ==
  [][\A g \in Slots :
       /\ (inv[g].pc # "idle" /\ inv'[g] # inv[g]) =>
            \A h \in Slots \ {g} : inv'[h] = inv[h]
       /\ (inv'[g].aborted /\ ~inv[g].aborted) =>
            inv[g].timer = "armed" /\ inv'[g].timer = "fired"
       /\ inv'[g].pc = "done" => inv'[g].response.status \in OwnStatuses(inv'[g])]_vars

C22_Witness ==
  /\ inv["d1"].pc = "done"
  /\ inv["d1"].timer = "fired"
  /\ inv["d1"].response.status = 504
  /\ inv["d2"].pc = "done"
  /\ inv["d2"].timer = "cleared"
  /\ inv["d2"].response.status = 200
  /\ inv["d2"].logOutcome = "inserted"

\* the timeout the invocation in slot g runs under
TimeoutOf(g) == Timeout(inv[g].endpoint, inv[g].variant)

\* C23 (as claimed): in each deployed variant the timeout of Compare Pages is
\* at least the timeout of Discover Competitor: the comparison call of a run
\* never has a shorter timeout than the discovery call of the same variant.
C23_CompareTimeoutNoShorter ==
  \A g, h \in Slots :
    (/\ inv[g].endpoint = "find-competitor"
     /\ inv[h].endpoint = "analyze"
     /\ inv[g].variant = inv[h].variant)
    => TimeoutOf(h) >= TimeoutOf(g)

\* C24 (as claimed): every gateway invocation eventually returns a response,
\* however the upstream behaves, a reply that stalls after its status line
\* included.
C24_AlwaysResponds ==
  \A g \in DirectSlots : (inv[g].pc = "start") ~> (inv[g].pc = "done")

\* C25 (as claimed): once an invocation has returned its response, the timer
\* it started has fired or been cleared; none stays armed.
C25_NoTimerLeftArmed ==
  \A g \in Slots : inv[g].pc = "done" => inv[g].timer # "armed"

\* the step in which the invocation in slot g returns its response
Returns(g) == inv[g].pc # "done" /\ inv'[g].pc = "done"

\* the step in which the timer of slot g fires while its request is in flight
TimerFiresInFlight(g) ==
  inv[g].pc = "fetching" /\ inv[g].timer = "armed" /\ inv'[g].timer = "fired"

\* C26 (as claimed): a gateway response has status 504 if and only if the
\* gateway's own timer fired while its upstream request was in flight; an
\* upstream error reply or a transport fault never yields 504.
C26_TimeoutIffTimerFired ==
  [][\A g \in Slots :
       Returns(g) => (inv'[g].response.status = 504 <=> TimerFiresInFlight(g))]_vars

\* C26 (amended): a gateway response has status 504 if and only if the
\* gateway's own timer fired while its upstream request was in flight or the
\* upstream itself replied 504 with a JSON body, which is passed through; a
\* transport fault, a body that does not parse and an upstream error reply
\* of another status never yield 504.
C26_TimeoutOrUpstream504 ==
  [][\A g \in Slots :
       Returns(g) =>
         (inv'[g].response.status = 504 <=>
            \/ TimerFiresInFlight(g)
            \/ /\ inv[g].pc = "parsing"
               /\ inv[g].up.kind = "json"
               /\ inv[g].up.status = 504)]_vars

C26_Witness ==
  /\ inv["d1"].pc = "done"
  /\ inv["d1"].timer = "fired"
  /\ inv["d1"].response = JsonResponse(Failure(JStr(TimeoutMessage("find-competitor"))), 504)
  /\ inv["d2"].pc = "done"
  /\ inv["d2"].timer = "cleared"
  /\ inv["d2"].up.status = 504
  /\ inv["d2"].response = JsonResponse(Failure(JStr("Gateway Time-out")), 504)

\* C27: within one run the source_url sent to Compare Pages equals the
\* source_url sent to Discover Competitor, which is the input at the moment
\* of the submit; while a run is active the input keeps that value.
C27_SameSourceUrl ==
  /\ inv["ca"].pc # "idle" =>
       /\ inv["cf"].pc = "done"
       /\ "source_url" \in DOMAIN inv["ca"].body
       /\ inv["ca"].body.source_url = inv["cf"].body.source_url
  /\ handler.pc # "none" =>
       /\ inv["cf"].body.source_url = JStr(handler.sourceUrl)
       /\ sourceUrl = handler.sourceUrl

C27_Witness ==
  /\ runs = 2
  /\ loadingStep = "analyzing"
  /\ inv["ca"].pc = "fetching"
  /\ inv["ca"].body.source_url = JStr(sourceUrl)
  /\ inv["cf"].body.source_url = JStr(sourceUrl)

\* C28: the combined results are non-null if and only if the step is
\* complete.
C28_ResultsIffComplete ==
  results # Null <=> loadingStep = "complete"

C28_Witness ==
  /\ runs = 2
  /\ loadingStep = "complete"
  /\ results # Null
  /\ results.competitorDiscovery = inv["cf"].response.body.data
  /\ trail[1] = "idle"

\* C29: a non-null error implies the step is idle and null results, here and
\* after every step; an error that is set changes only when a submit clears
\* it.
C29_ErrorOnlyInIdle ==
  [][/\ error # Null => loadingStep = "idle" /\ results = Null
     /\ error' # Null => loadingStep' = "idle" /\ results' = Null
     /\ (error # Null /\ error' # error) => runs' = runs + 1 /\ error' = Null]_vars

C29_Witness ==
  /\ runs = 2
  /\ NonEmptyError(error)
  /\ loadingStep = "idle"
  /\ trail = <<"complete", "finding_competitor", "idle">>
  /\ results = Null

\* C30 (as claimed): no Compare Pages request goes out without a
\* reference_url: a discovery response accepted as successful whose data is
\* missing or has no competitor_url ends the run in idle with an error.
C30_ReferenceAlwaysSent ==
  inv["ca"].pc # "idle" =>
    /\ "reference_url" \in DOMAIN inv["ca"].body
    /\ Truthy(inv["ca"].body.reference_url)

====
